---- MODULE Spec2Model ----
(***************************************************************************)
(* Entry validation and request shaping of the chromadb client.            *)
(*                                                                         *)
(* The repository carries two revisions of the collection operations:      *)
(*   - src/src/async/collection.rs  (add / upsert / update, validate)      *)
(*   - src/src/v1/collection.rs     (add / upsert / update, validate)      *)
(* Both are modelled; the handlers of the v1 revision carry the suffix V1. *)
(*                                                                         *)
(* Option<T> is modelled as a sequence of length at most one:              *)
(*   None = << >>,  Some(x) = << x >>.                                     *)
(***************************************************************************)
EXTENDS Integers, Sequences, FiniteSets, TLC

\* ------------------------------------------------------------------ bounds
\* longest ids / embeddings / metadatas / documents / provider output vector
MaxLen == 2

\* ------------------------------------------------------------ value domains
\* ids are strings; "" is the empty string the validator rejects
IdValues == {"", "a", "b"}
\* an Embedding (Vec<f32>) is opaque to the validator: two distinguishable ones
EmbeddingValues == {"v0", "v1"}
\* a Metadata map is opaque to the validator
MetadataValues == {"m"}
\* a document is opaque to the validator
DocumentValues == {"d1", "d2"}

SeqsUpTo(S, n) == UNION {[1..k -> S] : k \in 0..n}

\* ------------------------------------------------------------------ Option
None == << >>
Some(x) == << x >>
is_some(o) == Len(o) = 1
is_none(o) == Len(o) = 0
unwrap(o) == o[1]
OptionOf(S) == {None} \cup {Some(x) : x \in S}

\* ------------------------------------------------------- CollectionEntries
CollectionEntries ==
    [ids : SeqsUpTo(IdValues, MaxLen),
     metadatas : OptionOf(SeqsUpTo(MetadataValues, MaxLen)),
     documents : OptionOf(SeqsUpTo(DocumentValues, MaxLen)),
     embeddings : OptionOf(SeqsUpTo(EmbeddingValues, MaxLen))]

\* --------------------------------------------------------- EmbeddingFunction
\* An embedding provider is an external capability.  One call of a handler
\* invokes it at most once, so a provider is the outcome of that invocation:
\* it fails, or it returns `out` (any number of vectors).
EmbeddingFunction ==
    {[fails |-> TRUE, out |-> << >>]}
        \cup {[fails |-> FALSE, out |-> s] : s \in SeqsUpTo(EmbeddingValues, MaxLen)}

\* embed(&self, docs) -> Result<Vec<Embedding>>
embed(f, docs) == [is_err |-> f.fails, value |-> f.out]

\* ------------------------------------------------------------ validate steps
\* The outcome of validate: Ok(CollectionEntries) or one of the bail!()
\* messages, named by the error kind it stands for:
\*   MissingContent            "Embeddings and documents cannot both be None"
\*   MissingEmbeddingProvider  "embedding_function cannot be None if ..."
\*   ConflictingEmbeddingSource "embedding_function should be None if ..."
\*   EmbeddingProviderFailed   the error of embed(), propagated by `?`
\*   EmptyId                   "Found empty string in IDs"
\*   LengthMismatch            "IDs, embeddings, metadatas, and documents ..."
\*   DuplicateId               "Expected IDs to be unique, found duplicates for"
\* duplicate_ids is the payload of DuplicateId; embed_calls counts the
\* invocations of the provider made by this call.
ValidateResult(kind, entries, duplicate_ids, embed_calls) ==
    [kind |-> kind, entries |-> entries,
     duplicate_ids |-> duplicate_ids, embed_calls |-> embed_calls]

NoEntries == [ids |-> << >>, metadatas |-> None, documents |-> None, embeddings |-> None]

Bail(kind, embed_calls) == ValidateResult(kind, NoEntries, << >>, embed_calls)

\* a validator that tests the flag the wrong way round
missing_content_flag_inverted(require_embeddings_or_documents, embeddings, documents) ==
    ~require_embeddings_or_documents /\ is_none(embeddings) /\ is_none(documents)

\* require_embeddings_or_documents && embeddings.is_none() && documents.is_none()
missing_content(require_embeddings_or_documents, embeddings, documents) ==
    require_embeddings_or_documents /\ is_none(embeddings) /\ is_none(documents)

\* a validator that asks for a provider only when embeddings are given
missing_embedding_function_is_some(embeddings, documents, embedding_function) ==
    is_some(embeddings) /\ is_some(documents) /\ is_none(embedding_function)

\* embeddings.is_none() && documents.is_some() && embedding_function.is_none()
missing_embedding_function(embeddings, documents, embedding_function) ==
    is_none(embeddings) /\ is_some(documents) /\ is_none(embedding_function)

\* a validator that sees a conflict only when embeddings are absent
conflicting_embedding_source_is_none(embeddings, embedding_function) ==
    is_none(embeddings) /\ is_some(embedding_function)

\* embeddings.is_some() && embedding_function.is_some()
conflicting_embedding_source(embeddings, embedding_function) ==
    is_some(embeddings) /\ is_some(embedding_function)

\* a validator that calls the provider whenever embeddings are absent
should_embed_without_documents(embeddings, documents, embedding_function) ==
    is_none(embeddings) /\ is_some(embedding_function)

\* embeddings.is_none() && documents.is_some() && embedding_function.is_some()
should_embed(embeddings, documents, embedding_function) ==
    is_none(embeddings) /\ is_some(documents) /\ is_some(embedding_function)

\* a validator that looks at the first id only
has_empty_id_first_only(ids) == Len(ids) > 0 /\ ids[1] = ""

\* for id in &ids { if id.is_empty() { bail!(..) } }
has_empty_id(ids) == \E i \in 1..Len(ids) : ids[i] = ""

\* a validator that forgets to compare the documents
length_mismatch_without_documents(ids, embeddings, metadatas, documents) ==
    \/ (is_some(embeddings) /\ Len(unwrap(embeddings)) # Len(ids))
    \/ (is_some(metadatas) /\ Len(unwrap(metadatas)) # Len(ids))

\* the three-way length comparison against ids.len()
length_mismatch(ids, embeddings, metadatas, documents) ==
    \/ (is_some(embeddings) /\ Len(unwrap(embeddings)) # Len(ids))
    \/ (is_some(metadatas) /\ Len(unwrap(metadatas)) # Len(ids))
    \/ (is_some(documents) /\ Len(unwrap(documents)) # Len(ids))

\* let unique_ids: HashSet<_> = ids.iter().collect();
unique_ids(ids) == {ids[i] : i \in 1..Len(ids)}

\* a validator that compares the two sizes with > instead of !=
has_duplicates_greater_than(ids) == Cardinality(unique_ids(ids)) > Len(ids)

\* unique_ids.len() != ids.len()
has_duplicates(ids) == Cardinality(unique_ids(ids)) # Len(ids)

\* ids.iter().filter(|x| x == id).count()
count(ids, id) == Cardinality({j \in 1..Len(ids) : ids[j] = id})

\* a filter that keeps the ids occurring more than twice
duplicate_ids_more_than_twice(ids) ==
    LET keep(id) == count(ids, id) > 2
    IN SelectSeq(ids, keep)

\* ids.iter().filter(|id| ids.iter().filter(|x| x == id).count() > 1).collect()
duplicate_ids(ids) ==
    LET keep(id) == count(ids, id) > 1
    IN SelectSeq(ids, keep)

\* a validator that returns the documents only when it has no embeddings
check_entries_dropping_documents(ids, embeddings, metadatas, documents, embed_calls) ==
    IF has_empty_id(ids) THEN Bail("EmptyId", embed_calls)
    ELSE IF length_mismatch(ids, embeddings, metadatas, documents)
         THEN Bail("LengthMismatch", embed_calls)
    ELSE IF has_duplicates(ids)
         THEN ValidateResult("DuplicateId", NoEntries, duplicate_ids(ids), embed_calls)
    ELSE ValidateResult("Ok",
                        [ids |-> ids, metadatas |-> metadatas,
                         documents |-> IF is_some(embeddings) THEN None ELSE documents,
                         embeddings |-> embeddings],
                        << >>, embed_calls)

\* The checks both revisions run after the embedding step: empty ids, lengths,
\* duplicates, then Ok(CollectionEntries { ids, metadatas, documents, embeddings })
check_entries(ids, embeddings, metadatas, documents, embed_calls) ==
    IF has_empty_id(ids) THEN Bail("EmptyId", embed_calls)
    ELSE IF length_mismatch(ids, embeddings, metadatas, documents)
         THEN Bail("LengthMismatch", embed_calls)
    ELSE IF has_duplicates(ids)
         THEN ValidateResult("DuplicateId", NoEntries, duplicate_ids(ids), embed_calls)
    ELSE ValidateResult("Ok",
                        [ids |-> ids, metadatas |-> metadatas,
                         documents |-> documents, embeddings |-> embeddings],
                        << >>, embed_calls)

\* validate of src/src/async/collection.rs
validate(require_embeddings_or_documents, collection_entries, embedding_function) ==
    LET ids == collection_entries.ids
        embeddings == collection_entries.embeddings
        metadatas == collection_entries.metadatas
        documents == collection_entries.documents
    IN
    IF missing_content(require_embeddings_or_documents, embeddings, documents)
    THEN Bail("MissingContent", 0)
    ELSE IF missing_embedding_function(embeddings, documents, embedding_function)
    THEN Bail("MissingEmbeddingProvider", 0)
    ELSE IF conflicting_embedding_source(embeddings, embedding_function)
    THEN Bail("ConflictingEmbeddingSource", 0)
    ELSE IF should_embed(embeddings, documents, embedding_function)
    THEN IF is_none(embedding_function) \/ is_none(documents)
         THEN Bail("Panic", 0)   \* unwrap() on a None value
         ELSE LET r == embed(unwrap(embedding_function), unwrap(documents))
              IN IF r.is_err
                 THEN Bail("EmbeddingProviderFailed", 1)
                 ELSE check_entries(ids, Some(r.value), metadatas, documents, 1)
    ELSE check_entries(ids, embeddings, metadatas, documents, 0)

\* validate of src/src/v1/collection.rs: embed() returns the vectors themselves
\* (no Result); they are stored in the local `embeddingss`, which nothing reads,
\* and the checks and the returned entries use the caller's `embeddings`.
validateV1(require_embeddings_or_documents, collection_entries, embedding_function) ==
    LET ids == collection_entries.ids
        embeddings == collection_entries.embeddings
        metadatas == collection_entries.metadatas
        documents == collection_entries.documents
    IN
    IF missing_content(require_embeddings_or_documents, embeddings, documents)
    THEN Bail("MissingContent", 0)
    ELSE IF missing_embedding_function(embeddings, documents, embedding_function)
    THEN Bail("MissingEmbeddingProvider", 0)
    ELSE IF conflicting_embedding_source(embeddings, embedding_function)
    THEN Bail("ConflictingEmbeddingSource", 0)
    ELSE IF should_embed(embeddings, documents, embedding_function)
    THEN IF is_none(embedding_function) \/ is_none(documents)
         THEN Bail("Panic", 0)   \* unwrap() on a None value
         ELSE LET embeddingss == embed(unwrap(embedding_function), unwrap(documents)).value
              IN check_entries(ids, embeddings, metadatas, documents, 1)
    ELSE check_entries(ids, embeddings, metadatas, documents, 0)

\* ----------------------------------------------------------------- handlers
\* json!({ "ids": ids, "embeddings": embeddings, "metadatas": metadatas,
\*         "documents": documents }): an absent Option serialises as null,
\* which the body keeps as None.
json_body(entries) ==
    [ids |-> entries.ids, embeddings |-> entries.embeddings,
     metadatas |-> entries.metadatas, documents |-> entries.documents]

\* what self.api.post(..).await? followed by response.json().await? can yield
TransportOutcomes == {"Ok", "TransportFailure", "DeserializationFailure"}

\* the v1 EmbeddingFunction returns Vec<Embedding>: it has no failing outcome
EmbeddingFunctionV1 == {f \in EmbeddingFunction : ~f.fails}

VARIABLES
    pc,                  \* "ready", or the handler that has run
    collection_entries,  \* the caller's CollectionEntries argument
    embedding_function,  \* the caller's Option<Box<dyn EmbeddingFunction>>
    validated,           \* what validate returned to the handler
    request,             \* the request handed to the dispatcher, if any
    returned,            \* what the handler returned to its caller
    query_options,       \* the caller's QueryOptions argument
    resolved             \* how query resolved its embedding source

\* the variables of the entry and query handlers
handlerVars ==
    <<pc, collection_entries, embedding_function, validated, request, returned,
      query_options, resolved>>

VARIABLES
    dpc,                 \* "ready", or the dispatcher function that has run
    auth_method,         \* the ChromaAuthMethod handed to the dispatcher
    json_body_arg,       \* the Option<Value> handed to the dispatcher
    response,            \* what the server and the network do with the request
    outgoing,            \* the request as built by the dispatcher
    dispatched           \* the Result the dispatcher returned

\* the variables of one dispatcher call
dispatchVars == <<dpc, auth_method, json_body_arg, response, outgoing, dispatched>>

VARIABLES
    client_options,      \* the ChromaClientOptions given to ChromaClient::new
    construction,        \* "start", "done" or "failed": where ChromaClient::new is
    identity_requests,   \* the requests sent to the identity endpoint, in order
    identity_answer,     \* what the identity endpoint answered, once it has
    api,                 \* the shared APIClientAsync of the client, if constructed
    client_pool,         \* the VecDeque of handles behind the mutex, if constructed
    clients_created,     \* how many handles the dispatcher has constructed
    tasks                \* each concurrent caller and its current public operation

\* the variables of a client and its callers
clientVars ==
    <<client_options, construction, identity_requests, identity_answer,
      api, client_pool, clients_created, tasks>>

VARIABLES
    server_collections,  \* the server's collections: for each name a record, or none
    next_collection_id,  \* the id the server gives the next collection it creates
    created_collection,  \* the collection create_collection returned last, if any
    fetched_collection,  \* the collection get_collection returned last, if any
    untouched            \* no modify or delete since create_collection returned

\* the variables of the collection round trip
roundTripVars == <<server_collections, next_collection_id, created_collection, fetched_collection,
      untouched>>

VARIABLES
    requests,            \* each concurrent call of send_request and where it is
    pool_lock            \* the call that holds the mutex of the pool, if any

\* the variables of the concurrent calls of send_request
poolVars == <<requests, pool_lock>>

vars == <<handlerVars, dispatchVars, clientVars, roundTripVars, poolVars>>

\* no concurrent calls of send_request are being looked at
NoPool ==
    /\ requests = << >>
    /\ pool_lock = 0

\* no collection round trip is being looked at
NoRoundTrip ==
    /\ server_collections = << >>
    /\ next_collection_id = 0
    /\ created_collection = None
    /\ fetched_collection = None
    /\ untouched = TRUE

\* no client is being looked at
NoClient ==
    /\ client_options = None
    /\ construction = "unused"
    /\ identity_requests = << >>
    /\ identity_answer = None
    /\ api = None
    /\ client_pool = None
    /\ clients_created = 0
    /\ tasks = << >>

\* no dispatcher call is being looked at
NoDispatch ==
    /\ dpc = "unused"
    /\ auth_method = None
    /\ json_body_arg = None
    /\ response = None
    /\ outgoing = None
    /\ dispatched = None

NotValidated == ValidateResult("NotValidated", NoEntries, << >>, 0)

\* QueryOptions::default()
NoQueryOptions ==
    [query_embeddings |-> None, query_texts |-> None, n_results |-> None,
     where_metadata |-> None, where_document |-> None, include |-> None]

\* the outcome of the embedding-source resolution of query
QueryResolution(kind, query_embeddings, embed_calls) ==
    [kind |-> kind, query_embeddings |-> query_embeddings, embed_calls |-> embed_calls]

NotResolved == QueryResolution("NotResolved", None, 0)

\* no query is in progress
NoQuery == query_options = NoQueryOptions /\ resolved = NotResolved

Init ==
    /\ NoQuery
    /\ NoDispatch
    /\ NoClient
    /\ NoRoundTrip
    /\ NoPool
    /\ pc = "ready"
    /\ collection_entries \in CollectionEntries
    /\ embedding_function \in OptionOf(EmbeddingFunction)
    /\ validated = NotValidated
    /\ request = None
    /\ returned = "Pending"

\* the part the three handlers share: `validate(..)?`, the json body, the post
\* to "/collections/{id}/<path>", and the decoding of the response
Handle(name, path, v) ==
    /\ pc = "ready"
    /\ pc' = name
    /\ validated' = v
    /\ IF v.kind = "Ok"
       THEN /\ request' = Some([path |-> path, body |-> json_body(v.entries)])
            /\ \E t \in TransportOutcomes : returned' = t
       ELSE /\ request' = None
            /\ returned' = v.kind
    /\ UNCHANGED <<collection_entries, embedding_function, query_options, resolved>>
    /\ UNCHANGED <<dispatchVars, clientVars, roundTripVars, poolVars>>

\* ChromaCollection::add (async revision)
Add == Handle("add", "add", validate(TRUE, collection_entries, embedding_function))

\* ChromaCollection::upsert (async revision)
Upsert == Handle("upsert", "upsert", validate(TRUE, collection_entries, embedding_function))

\* ChromaCollection::update (async revision)
Update == Handle("update", "update", validate(FALSE, collection_entries, embedding_function))

\* ChromaCollection::add (v1 revision)
AddV1 ==
    /\ embedding_function \in OptionOf(EmbeddingFunctionV1)
    /\ Handle("addV1", "add", validateV1(TRUE, collection_entries, embedding_function))

\* ChromaCollection::upsert (v1 revision)
UpsertV1 ==
    /\ embedding_function \in OptionOf(EmbeddingFunctionV1)
    /\ Handle("upsertV1", "upsert", validateV1(TRUE, collection_entries, embedding_function))

\* ChromaCollection::update (v1 revision)
UpdateV1 ==
    /\ embedding_function \in OptionOf(EmbeddingFunctionV1)
    /\ Handle("updateV1", "update", validateV1(FALSE, collection_entries, embedding_function))

Next == Add \/ Upsert \/ Update \/ AddV1 \/ UpsertV1 \/ UpdateV1

Spec == Init /\ [][Next]_vars

\* ------------------------------------------------------------ vocabulary
Done == pc # "ready"
AsyncRevision == pc \in {"add", "upsert", "update"}
V1Revision == pc \in {"addV1", "upsertV1", "updateV1"}
\* Add and Upsert require content, Update does not
RequiresContent == pc \in {"add", "upsert", "addV1", "upsertV1"}

TypeOK ==
    /\ pc \in {"ready", "add", "upsert", "update", "addV1", "upsertV1", "updateV1"}
    /\ collection_entries \in CollectionEntries
    /\ embedding_function \in OptionOf(EmbeddingFunction)
    /\ validated.kind \in {"NotValidated", "Ok", "MissingContent", "MissingEmbeddingProvider",
                           "ConflictingEmbeddingSource", "EmbeddingProviderFailed",
                           "EmptyId", "LengthMismatch", "DuplicateId"}
    /\ validated.embed_calls \in {0, 1}

\* ------------------------------------------- the specified validation steps
\* The seven steps of the specified algorithm, stated on the caller's
\* arguments.  They are written from the specification, not from validate.
InEmbeddings == collection_entries.embeddings
InDocuments == collection_entries.documents
InMetadatas == collection_entries.metadatas
InIds == collection_entries.ids

ProviderSupplied == embedding_function # None
ProviderInvokedBySpec == InEmbeddings = None /\ InDocuments # None /\ ProviderSupplied
ProviderFails == ProviderSupplied /\ embedding_function[1].fails
ProviderOutput == embedding_function[1].out

\* the embeddings of the batch after step 4
NormalizedEmbeddings ==
    IF ProviderInvokedBySpec THEN Some(ProviderOutput) ELSE InEmbeddings

Step1Applies == RequiresContent /\ InEmbeddings = None /\ InDocuments = None
Step2Applies == InDocuments # None /\ InEmbeddings = None /\ ~ProviderSupplied
Step3Applies == InEmbeddings # None /\ ProviderSupplied
Step4Applies == ProviderInvokedBySpec /\ ProviderFails
Step5Applies == \E i \in DOMAIN InIds : InIds[i] = ""
LengthDiffers(field) == field # None /\ Len(field[1]) # Len(InIds)
Step6Applies ==
    \/ LengthDiffers(NormalizedEmbeddings)
    \/ LengthDiffers(InMetadatas)
    \/ LengthDiffers(InDocuments)
\* the ids that occur more than once in the batch
RepeatedIds ==
    {InIds[i] : i \in {k \in DOMAIN InIds : \E j \in DOMAIN InIds : j # k /\ InIds[j] = InIds[k]}}
Step7Applies == RepeatedIds # {}

ExpectedKind ==
    CASE Step1Applies -> "MissingContent"
      [] ~Step1Applies /\ Step2Applies -> "MissingEmbeddingProvider"
      [] ~Step1Applies /\ ~Step2Applies /\ Step3Applies -> "ConflictingEmbeddingSource"
      [] OTHER ->
            IF Step4Applies THEN "EmbeddingProviderFailed"
            ELSE IF Step5Applies THEN "EmptyId"
            ELSE IF Step6Applies THEN "LengthMismatch"
            ELSE IF Step7Applies THEN "DuplicateId"
            ELSE "Ok"

\* ------------------------------------------------------------------ C1
\* C1: for every operation kind, batch and provider, validate reports the
\* failure of the first applicable step in the order MissingContent,
\* MissingEmbeddingProvider, ConflictingEmbeddingSource, provider failure,
\* EmptyId, LengthMismatch, DuplicateId, and succeeds only when none applies.
C1_FirstApplicableStep == Done => validated.kind = ExpectedKind

\* the async revision alone follows the specified order
C1_AsyncFollowsOrder == AsyncRevision => validated.kind = ExpectedKind

\* ------------------------------------------------------------------ C2
\* the batch is valid apart from its missing embeddings
OtherwiseValid == ~Step5Applies /\ ~Step6Applies /\ ~Step7Applies

\* C2: when embeddings are absent, documents present, a provider is supplied
\* and succeeds and the batch is otherwise valid, validate succeeds, the
\* returned embeddings are the provider's vectors in order, and they are the
\* embeddings of the request that is sent.
C2_ProviderEmbeddingsReturned ==
    (Done /\ ProviderInvokedBySpec /\ ~ProviderFails /\ OtherwiseValid)
        => /\ validated.kind = "Ok"
           /\ validated.entries.embeddings = Some(ProviderOutput)
           /\ request # None
           /\ request[1].body.embeddings = Some(ProviderOutput)

\* the async revision alone returns and sends the provider's vectors
C2_AsyncReturnsProviderEmbeddings ==
    (AsyncRevision /\ ProviderInvokedBySpec /\ ~ProviderFails /\ OtherwiseValid)
        => /\ validated.kind = "Ok"
           /\ validated.entries.embeddings = Some(ProviderOutput)
           /\ request # None
           /\ request[1].body.embeddings = Some(ProviderOutput)

\* ------------------------------------------------------------------ C3
\* the batch invariant of the data model
BatchInvariant(b) ==
    /\ \A i \in DOMAIN b.ids : b.ids[i] # ""
    /\ \A i, j \in DOMAIN b.ids : i # j => b.ids[i] # b.ids[j]
    /\ b.embeddings # None => Len(b.embeddings[1]) = Len(b.ids)
    /\ b.metadatas # None => Len(b.metadatas[1]) = Len(b.ids)
    /\ b.documents # None => Len(b.documents[1]) = Len(b.ids)

\* C3: every batch a successful validate returns satisfies the batch
\* invariant, and for Add/Upsert its embeddings are present.
C3_ReturnedBatchInvariant ==
    (Done /\ validated.kind = "Ok")
        => /\ BatchInvariant(validated.entries)
           /\ RequiresContent => validated.entries.embeddings # None

\* the async revision alone keeps the batch invariant
C3_AsyncBatchInvariant ==
    (AsyncRevision /\ validated.kind = "Ok")
        => /\ BatchInvariant(validated.entries)
           /\ RequiresContent => validated.entries.embeddings # None

\* ------------------------------------------------------------------ C4
\* C4 as stated: every batch containing an empty-string id fails with
\* EmptyId, whatever the operation kind, the other fields and the provider.
C4_EmptyIdRegardless == (Done /\ Step5Applies) => validated.kind = "EmptyId"

EarlierThanStep5 == Step1Applies \/ Step2Applies \/ Step3Applies \/ Step4Applies

\* C4 (amended): every batch containing an empty-string id fails validation;
\* the failure is EmptyId whenever none of the steps 1-4 applies, and is the
\* failure of one of those steps otherwise.
C4_EmptyIdUnlessEarlierStep ==
    (Done /\ Step5Applies)
        => /\ validated.kind # "Ok"
           /\ ~EarlierThanStep5 => validated.kind = "EmptyId"
           /\ EarlierThanStep5 =>
                 validated.kind \in {"MissingContent", "MissingEmbeddingProvider",
                                     "ConflictingEmbeddingSource", "EmbeddingProviderFailed"}

\* an empty id in second position, behind a non-empty one, in a batch whose
\* metadatas have the wrong length, is reported as EmptyId
C4_Witness ==
    /\ pc = "add"
    /\ InIds = <<"a", "">>
    /\ InDocuments = Some(<<"d1", "d2">>)
    /\ InMetadatas = Some(<<"m">>)
    /\ ProviderInvokedBySpec
    /\ validated.kind = "EmptyId"

\* ------------------------------------------------------------------ C5
\* C5 as stated: a present embeddings, metadatas or documents field whose
\* length differs from |ids| makes validation fail with LengthMismatch.
C5_LengthMismatchRegardless ==
    (Done /\ (LengthDiffers(InEmbeddings) \/ LengthDiffers(InMetadatas)
                  \/ LengthDiffers(InDocuments)))
        => validated.kind = "LengthMismatch"

EarlierThanStep6 == EarlierThanStep5 \/ Step5Applies

\* C5 (amended): a present embeddings, metadatas or documents field whose
\* length differs from |ids| makes validation fail, each field independently;
\* the failure is LengthMismatch whenever none of the steps 1-5 applies.
C5_LengthMismatchUnlessEarlierStep ==
    \A field \in {InEmbeddings, InMetadatas, InDocuments} :
        (Done /\ LengthDiffers(field))
            => /\ validated.kind # "Ok"
               /\ ~EarlierThanStep6 => validated.kind = "LengthMismatch"

\* only the documents have the wrong length: two documents for one id, the
\* provider returning one vector
C5_Witness ==
    /\ pc = "add"
    /\ InIds = <<"a">>
    /\ InDocuments = Some(<<"d1", "d2">>)
    /\ InMetadatas = None
    /\ ProviderInvokedBySpec /\ ~ProviderFails /\ Len(ProviderOutput) = 1
    /\ validated.kind = "LengthMismatch"

\* ------------------------------------------------------------------ C6
\* C6 as stated: every batch with a repeated id fails with DuplicateId.
C6_DuplicateIdRegardless == (Done /\ Step7Applies) => validated.kind = "DuplicateId"

EarlierThanStep7 == EarlierThanStep6 \/ Step6Applies

\* C6 (amended): every batch with a repeated id fails validation; the
\* failure is DuplicateId whenever none of the steps 1-6 applies, as for
\* ids=[x,x] with documents=[d1,d2] and two embeddings (supplied by the
\* caller with no provider, or computed by the provider).
C6_DuplicateIdUnlessEarlierStep ==
    (Done /\ Step7Applies)
        => /\ validated.kind # "Ok"
           /\ ~EarlierThanStep7 => validated.kind = "DuplicateId"

\* ids=[x,x], documents=[d1,d2], embeddings of length 2, no provider
C6_Witness ==
    /\ Done
    /\ InIds = <<"a", "a">>
    /\ InDocuments = Some(<<"d1", "d2">>)
    /\ InEmbeddings # None /\ Len(InEmbeddings[1]) = 2
    /\ ~ProviderSupplied
    /\ validated.kind = "DuplicateId"

\* ------------------------------------------------------------------ C7
\* C7: an Add/Upsert batch with neither embeddings nor documents fails with
\* MissingContent, whatever the ids, the metadatas and the provider are.
C7_MissingContent ==
    (Done /\ RequiresContent /\ InEmbeddings = None /\ InDocuments = None)
        => validated.kind = "MissingContent"

\* reported even with an empty id, mismatched metadatas and a provider
C7_Witness ==
    /\ pc = "upsert"
    /\ InEmbeddings = None /\ InDocuments = None
    /\ InIds = <<"">>
    /\ InMetadatas = Some(<<"m", "m">>)
    /\ ProviderSupplied
    /\ validated.kind = "MissingContent"

\* ------------------------------------------------------------------ C8
\* C8: documents present, embeddings absent and no provider fails with
\* MissingEmbeddingProvider, for Add, Upsert and Update, whatever the ids
\* and the metadatas are.
C8_MissingEmbeddingProvider ==
    (Done /\ InDocuments # None /\ InEmbeddings = None /\ ~ProviderSupplied)
        => validated.kind = "MissingEmbeddingProvider"

\* reported by update, for a batch with a repeated id
C8_Witness ==
    /\ pc = "update"
    /\ InDocuments = Some(<<"d1", "d2">>) /\ InEmbeddings = None
    /\ ~ProviderSupplied
    /\ InIds = <<"a", "a">>
    /\ validated.kind = "MissingEmbeddingProvider"

\* ------------------------------------------------------------------ C9
\* C9: embeddings present together with a provider fails with
\* ConflictingEmbeddingSource for every operation kind, and the provider is
\* never invoked.
C9_ConflictingEmbeddingSource ==
    (Done /\ InEmbeddings # None /\ ProviderSupplied)
        => /\ validated.kind = "ConflictingEmbeddingSource"
           /\ validated.embed_calls = 0

\* reported by update for an otherwise valid batch with documents
C9_Witness ==
    /\ pc = "update"
    /\ InIds = <<"a", "b">>
    /\ InEmbeddings = Some(<<"v0", "v1">>)
    /\ InDocuments = Some(<<"d1", "d2">>)
    /\ ProviderSupplied /\ ~ProviderFails
    /\ validated.kind = "ConflictingEmbeddingSource"
    /\ validated.embed_calls = 0

\* ------------------------------------------------------------------ C10
\* the ids named by the DuplicateId error
ReportedIds == {validated.duplicate_ids[i] : i \in DOMAIN validated.duplicate_ids}

Revalidated ==
    IF V1Revision
    THEN validateV1(RequiresContent, validated.entries, None)
    ELSE validate(RequiresContent, validated.entries, None)

\* C11: validation is idempotent: re-validating, with no provider, a batch
\* that validate returned succeeds, yields the same batch and does not invoke
\* a provider.
C11_Idempotent ==
    (Done /\ validated.kind = "Ok")
        => /\ Revalidated.kind = "Ok"
           /\ Revalidated.entries = validated.entries
           /\ Revalidated.embed_calls = 0

\* the async revision alone is idempotent
C11_AsyncIdempotent ==
    (AsyncRevision /\ validated.kind = "Ok")
        => /\ Revalidated.kind = "Ok"
           /\ Revalidated.entries = validated.entries
           /\ Revalidated.embed_calls = 0

\* =================================================================== query
\* ChromaCollection::query of src/src/async/collection.rs

\* the values of the fields query passes through untouched
NResultsValues == {10}
WhereValues == {"where"}
IncludeValues == {<<"documents">>}

QueryOptions ==
    [query_embeddings : OptionOf(SeqsUpTo(EmbeddingValues, MaxLen)),
     query_texts : OptionOf(SeqsUpTo(DocumentValues, MaxLen)),
     n_results : OptionOf(NResultsValues),
     where_metadata : OptionOf(WhereValues),
     where_document : OptionOf(WhereValues),
     include : OptionOf(IncludeValues)]

\* a resolver that sees a conflict only when the texts are absent
conflicting_query_source_is_none(query_embeddings, query_texts) ==
    is_some(query_embeddings) /\ is_none(query_texts)

\* query_embeddings.is_some() && query_texts.is_some()
conflicting_query_source(query_embeddings, query_texts) ==
    is_some(query_embeddings) /\ is_some(query_texts)

\* query_embeddings.is_none() && query_texts.is_none()
missing_query_source(query_embeddings, query_texts) ==
    is_none(query_embeddings) /\ is_none(query_texts)

\* a resolver that asks for a provider only when the texts are absent
query_missing_embedding_function_is_none(query_texts, embedding_fn) ==
    is_none(query_texts) /\ is_none(embedding_fn)

\* query_texts.is_some() && embedding_function.is_none()
query_missing_embedding_function(query_texts, embedding_fn) ==
    is_some(query_texts) /\ is_none(embedding_fn)

\* a resolver that embeds when the caller brought the embeddings
query_should_embed_with_embeddings(query_embeddings, embedding_fn) ==
    is_some(query_embeddings) /\ is_some(embedding_fn)

\* query_embeddings.is_none() && embedding_function.is_some()
query_should_embed(query_embeddings, embedding_fn) ==
    is_none(query_embeddings) /\ is_some(embedding_fn)

\* the if / else if chain at the top of query
resolve_query_source(query_embeddings, query_texts, embedding_fn) ==
    IF conflicting_query_source(query_embeddings, query_texts)
    THEN QueryResolution("ConflictingQuerySource", None, 0)
    ELSE IF missing_query_source(query_embeddings, query_texts)
    THEN QueryResolution("MissingQuerySource", None, 0)
    ELSE IF query_missing_embedding_function(query_texts, embedding_fn)
    THEN QueryResolution("MissingEmbeddingProvider", None, 0)
    ELSE IF query_should_embed(query_embeddings, embedding_fn)
    THEN IF is_none(embedding_fn) \/ is_none(query_texts)
         THEN QueryResolution("Panic", None, 0)   \* unwrap() on a None value
         ELSE LET r == embed(unwrap(embedding_fn), unwrap(query_texts))
              IN IF r.is_err
                 THEN QueryResolution("EmbeddingProviderFailed", None, 1)
                 ELSE QueryResolution("Ok", Some(r.value), 1)
    ELSE QueryResolution("Ok", query_embeddings, 0)

\* json_body.as_object_mut().unwrap().retain(|_, v| !v.is_null())
retain_non_null(body) ==
    [k \in {key \in DOMAIN body : body[key] # None} |-> body[k]]

\* json!({ "query_embeddings": .., "n_results": .., "where": ..,
\*         "where_document": .., "include": .. }) followed by the retain
query_json_body(query_embeddings, options) ==
    retain_non_null(
        [query_embeddings |-> query_embeddings,
         n_results |-> options.n_results,
         where |-> options.where_metadata,
         where_document |-> options.where_document,
         include |-> options.include])

QueryInit ==
    /\ NoDispatch
    /\ NoClient
    /\ NoRoundTrip
    /\ NoPool
    /\ pc = "ready"
    /\ collection_entries = NoEntries
    /\ validated = NotValidated
    /\ embedding_function \in OptionOf(EmbeddingFunction)
    /\ query_options \in QueryOptions
    /\ resolved = NotResolved
    /\ request = None
    /\ returned = "Pending"

\* ChromaCollection::query
Query ==
    /\ pc = "ready"
    /\ pc' = "query"
    /\ LET r == resolve_query_source(query_options.query_embeddings,
                                     query_options.query_texts, embedding_function)
       IN /\ resolved' = r
          /\ IF r.kind = "Ok"
             THEN /\ request' = Some([path |-> "query",
                                      body |-> query_json_body(r.query_embeddings,
                                                               query_options)])
                  /\ \E t \in TransportOutcomes : returned' = t
             ELSE /\ request' = None
                  /\ returned' = r.kind
    /\ UNCHANGED <<collection_entries, embedding_function, validated, query_options>>
    /\ UNCHANGED <<dispatchVars, clientVars, roundTripVars, poolVars>>

QueryNext == Query

QuerySpec == QueryInit /\ [][QueryNext]_vars

\* ------------------------------------------------------------------ C13
QueryDone == pc = "query"
QueryEmbeddings == query_options.query_embeddings
QueryTexts == query_options.query_texts

\* C13: a query with both query_texts and query_embeddings fails with
\* ConflictingQuerySource, with or without a provider, before any request is
\* made and without invoking the provider.
C13_ConflictingQuerySource ==
    (QueryDone /\ QueryEmbeddings # None /\ QueryTexts # None)
        => /\ resolved.kind = "ConflictingQuerySource"
           /\ returned = "ConflictingQuerySource"
           /\ request = None
           /\ resolved.embed_calls = 0

\* both sources given together with a succeeding provider
C13_Witness ==
    /\ QueryDone
    /\ QueryEmbeddings = Some(<<"v0", "v1">>)
    /\ QueryTexts = Some(<<"d1", "d2">>)
    /\ ProviderSupplied /\ ~ProviderFails
    /\ returned = "ConflictingQuerySource"
    /\ request = None

\* ------------------------------------------------------------------ C14
\* the specified resolution, by the first matching rule
ExpectedQueryKind ==
    IF QueryEmbeddings # None /\ QueryTexts # None THEN "ConflictingQuerySource"
    ELSE IF QueryEmbeddings = None /\ QueryTexts = None THEN "MissingQuerySource"
    ELSE IF QueryTexts # None /\ ~ProviderSupplied THEN "MissingEmbeddingProvider"
    ELSE IF QueryTexts # None /\ ProviderFails THEN "EmbeddingProviderFailed"
    ELSE "Ok"

\* the embeddings the specified resolution sends
ExpectedQueryEmbeddings ==
    IF QueryTexts # None THEN Some(ProviderOutput) ELSE QueryEmbeddings

\* C14: query resolves its embedding source by the first matching rule: both
\* present, neither present and texts without a provider fail; texts with a
\* provider send the provider's vectors (its failure propagates); otherwise
\* the caller's query_embeddings are sent unchanged and a supplied provider
\* is not invoked.
C14_QuerySourceResolution ==
    QueryDone =>
        /\ resolved.kind = ExpectedQueryKind
        /\ resolved.kind = "Ok" =>
              /\ request # None
              /\ request[1].body.query_embeddings = ExpectedQueryEmbeddings
              /\ resolved.embed_calls = (IF QueryTexts # None THEN 1 ELSE 0)
        /\ resolved.kind # "Ok" =>
              /\ request = None
              /\ returned = resolved.kind

\* caller-supplied embeddings with a provider that is left unused
C14_Witness ==
    /\ QueryDone
    /\ QueryEmbeddings = Some(<<"v1", "v0">>)
    /\ QueryTexts = None
    /\ ProviderSupplied
    /\ resolved.kind = "Ok"
    /\ resolved.embed_calls = 0
    /\ request[1].body.query_embeddings = Some(<<"v1", "v0">>)

\* ------------------------------------------------------------------ C18
\* the keys of the request body whose value is the JSON null; "ids" is a Vec,
\* not an Option, and serialises as a list even when it is empty
NullFields(body) == {k \in DOMAIN body \ {"ids"} : body[k] = None}

\* C18: in the JSON payload of every operation an absent optional field is
\* omitted, never sent as an explicit null.
C18_AbsentFieldsOmitted == request # None => NullFields(request[1].body) = {}

\* query strips the null fields from its payload
C18_QueryOmitsAbsentFields == QueryDone => C18_AbsentFieldsOmitted


\* ---------------------------------------------------------------------------
\* The request dispatcher: send_request_no_self of src/src/api.rs, send_request
\* of src/src/v2/api.rs and APIClientV1::post of src/src/v1/api.rs.
\* ---------------------------------------------------------------------------

Usernames == {"user"}
Passwords == {"pw"}
Tokens == {"tok"}

\* ChromaAuthMethod: None, BasicAuth{username, password}, TokenAuth{token, header}
ChromaAuthMethod ==
    {[kind |-> "None", username |-> "", password |-> "", token |-> "", header |-> ""]}
    \cup
    [kind : {"BasicAuth"}, username : Usernames, password : Passwords,
     token : {""}, header : {""}]
    \cup
    [kind : {"TokenAuth"}, username : {""}, password : {""},
     token : Tokens, header : {"Authorization", "XChromaToken"}]

\* a header is a name and a value; the value is a scheme and the pieces
\* formatted after it
Header(name, scheme, pieces) == [name |-> name, scheme |-> scheme, pieces |-> pieces]

\* base64::prelude::BASE64_STANDARD.encode(...): an injective encoding of the
\* pieces it is given, never the pieces themselves
base64(pieces) == <<"base64(">> \o pieces \o <<")">>

auth_headers_bearer_for_x_chroma_token(auth) ==
    CASE auth.kind = "None" -> << >>
      [] auth.kind = "BasicAuth" ->
            << Header("Authorization", "Basic ",
                      base64(<<auth.username, ":", auth.password>>)) >>
      [] auth.kind = "TokenAuth" ->
            << Header("Authorization", "Bearer ", <<auth.token>>) >>

\* match auth_method { ... }: the headers the dispatcher adds for authentication
auth_headers(auth) ==
    CASE auth.kind = "None" -> << >>
      [] auth.kind = "BasicAuth" ->
            << Header("Authorization", "Basic ",
                      base64(<<auth.username, ":", auth.password>>)) >>
      [] auth.kind = "TokenAuth" /\ auth.header = "Authorization" ->
            << Header("Authorization", "Bearer ", <<auth.token>>) >>
      [] auth.kind = "TokenAuth" /\ auth.header = "XChromaToken" ->
            << Header("X-Chroma-Token", "", <<auth.token>>) >>

\* if let Some(body) = json_body { header("Content-Type", ...).json(&body) }
content_type_headers(body) ==
    IF is_some(body) THEN << Header("Content-Type", "", <<"application/json">>) >>
    ELSE << >>

\* the statuses a server answers with: both ends of the 2xx range, their
\* neighbours, and statuses with and without a canonical reason phrase
StatusCodes == {199, 200, 204, 299, 300, 404, 409, 499, 500}

\* the response bodies
ErrorTexts == {"", "collection already exists"}

\* what happens to a request: send() fails, or a status arrives and the body
\* can or cannot be read as text
ServerResponse ==
    [send_ok : BOOLEAN, status : StatusCodes, text : ErrorTexts, text_ok : BOOLEAN]

is_success_through_300(status) == 200 =< status /\ status =< 300

\* StatusCode::is_success
is_success(status) == 200 =< status /\ status < 300

\* StatusCode::canonical_reason
canonical_reason(status) ==
    CASE status = 200 -> Some("OK")
      [] status = 204 -> Some("No Content")
      [] status = 300 -> Some("Multiple Choices")
      [] status = 404 -> Some("Not Found")
      [] status = 409 -> Some("Conflict")
      [] status = 500 -> Some("Internal Server Error")
      [] OTHER -> None

\* StatusCode::as_u16 formatted with {}: the decimal digits of the status
as_u16(status) ==
    CASE status = 199 -> "199"
      [] status = 200 -> "200"
      [] status = 204 -> "204"
      [] status = 299 -> "299"
      [] status = 300 -> "300"
      [] status = 404 -> "404"
      [] status = 409 -> "409"
      [] status = 499 -> "499"
      [] status = 500 -> "500"

unwrap_or(option, default) == IF is_some(option) THEN unwrap(option) ELSE default

\* the Result of a dispatcher call; "Panic" is an unwrap() of an Err
DispatchOk == [kind |-> "Ok", message |-> << >>]
DispatchErr(message) == [kind |-> "Err", message |-> message]
DispatchPanic == [kind |-> "Panic", message |-> << >>]

\* anyhow::bail!("{} {}: {}", status.as_u16(), canonical_reason or "Unknown", error_text)
error_message(status, error_text) ==
    <<as_u16(status), " ", unwrap_or(canonical_reason(status), "Unknown"), ": ",
      error_text>>

\* let response = request.send().await?; ... the classification of the status
classify(resp) ==
    IF ~resp.send_ok THEN DispatchErr(<<"error sending request">>)
    ELSE IF is_success(resp.status) THEN DispatchOk
    ELSE IF ~resp.text_ok THEN DispatchErr(<<"error decoding response body">>)
    ELSE DispatchErr(error_message(resp.status, resp.text))

\* the request as it leaves the dispatcher: the authentication headers, then
\* the content type and the body when a body is given
build_request(auth, body) ==
    [headers |-> auth_headers(auth) \o content_type_headers(body), body |-> body]

\* send_request_no_self(request, auth_method, json_body)
send_request_no_self(auth, body, resp) ==
    [request |-> build_request(auth, body), result |-> classify(resp)]

\* v2 APIClientAsync::send_request(method, url, json_body)
send_request_v2(auth, body, resp) ==
    [request |-> build_request(auth, body), result |-> classify(resp)]

\* StatusCode formatted with {}: "{code} {canonical_reason or <unknown status code>}"
status_display(status) ==
    <<as_u16(status), " ", unwrap_or(canonical_reason(status), "<unknown status code>")>>

\* APIClientV1::post(path, json_body): no authentication, always a JSON body
post_v1(body, resp) ==
    [request |-> [headers |-> << Header("Content-Type", "", <<"application/json">>) >>,
                  body |-> Some(body)],
     result |->
        IF ~resp.send_ok THEN DispatchErr(<<"error sending request">>)
        ELSE IF is_success(resp.status) THEN DispatchOk
        ELSE IF ~resp.text_ok THEN DispatchPanic
        ELSE DispatchErr(status_display(resp.status) \o <<": ", resp.text>>)]

\* the bodies handed to the dispatcher
JsonBodies == {"{}"}

\* a dispatcher call about to run, with its arguments and the server's answer
DispatchInit ==
    /\ NoQuery
    /\ NoClient
    /\ NoRoundTrip
    /\ NoPool
    /\ pc = "unused"
    /\ collection_entries = NoEntries
    /\ embedding_function = None
    /\ validated = NotValidated
    /\ request = None
    /\ returned = "Pending"
    /\ dpc = "ready"
    /\ auth_method \in ChromaAuthMethod
    /\ json_body_arg \in OptionOf(JsonBodies)
    /\ response \in ServerResponse
    /\ outgoing = None
    /\ dispatched = None

Dispatch(name, call) ==
    /\ dpc = "ready"
    /\ dpc' = name
    /\ outgoing' = Some(call.request)
    /\ dispatched' = Some(call.result)
    /\ UNCHANGED <<auth_method, json_body_arg, response>>
    /\ UNCHANGED <<handlerVars, clientVars, roundTripVars, poolVars>>

SendRequestNoSelf ==
    Dispatch("send_request_no_self",
             send_request_no_self(auth_method, json_body_arg, response))

SendRequestV2 ==
    Dispatch("v2::send_request", send_request_v2(auth_method, json_body_arg, response))

PostV1 == Dispatch("v1::post", post_v1(json_body_arg, response))

DispatchNext == SendRequestNoSelf \/ SendRequestV2 \/ PostV1

DispatchSpec == DispatchInit /\ [][DispatchNext]_vars

\* --- vocabulary of the dispatcher claims ---

Dispatched == dpc \notin {"unused", "ready"}
AuthenticatedDispatcher == dpc \in {"send_request_no_self", "v2::send_request"}

\* the piece occurs in the message
Contains(message, piece) == \E i \in DOMAIN message : message[i] = piece

\* the server answered: a status arrived and the body could be read
ResponseReceived == response.send_ok /\ response.text_ok

\* C15 (dispatcher, status classification): when the server answers, the
\* dispatcher returns success exactly when the status is in 200..299; for every
\* other status it returns a failure whose message contains the numeric status,
\* the canonical reason phrase of the status and the response body verbatim.
C15_StatusClassification ==
    (Dispatched /\ ResponseReceived) =>
        LET result == dispatched[1]
            status == response.status
        IN  /\ result.kind = "Ok" <=> status \in 200..299
            /\ status \notin 200..299 =>
                /\ result.kind = "Err"
                /\ Contains(result.message, as_u16(status))
                /\ is_some(canonical_reason(status)) =>
                       Contains(result.message, unwrap(canonical_reason(status)))
                /\ Contains(result.message, response.text)

\* a 409 with a body has been turned into a failure
C15_Witness ==
    /\ Dispatched
    /\ ResponseReceived
    /\ response.status = 409
    /\ response.text = "collection already exists"
    /\ dispatched[1].kind = "Err"

\* ---------------------------------------------------------------------------
\* The client: ChromaClient::new and get_auth, the pooled send_request of
\* src/src/api.rs, and public operations called concurrently by a few tasks.
\* ---------------------------------------------------------------------------

\* the number of handles APIClientAsync::new puts in the pool ((0..128) in the
\* program, scaled down so that the pool can run empty)
PoolSize == 1

\* the number of concurrent callers
NumTasks == 1

Tasks == 1..NumTasks

\* the tenants the identity endpoint answers with
Tenants == {"*", "acme"}

Databases == {"default_database"}

\* ChromaClientOptions { url, auth, database }; the url is left at its default
ChromaClientOptions == [auth : ChromaAuthMethod, database : Databases]

\* format!("{api_endpoint}{scope}{path}"): the scope is the
\* /tenants/{tenant}/databases/{database} prefix, when the url has one
Url(api_version, scope, path) == [api_version |-> api_version, scope |-> scope, path |-> path]

\* APIClientAsync::database_url
database_url(client, path) ==
    Url("/api/v2", Some([tenant |-> client.tenant, database |-> client.database]), path)

\* the url of get_v1: format!("{}{}", self.api_endpoint_v1, path)
v1_url(path) == Url("/api/v1", None, path)

\* the url of get_auth: format!("{}/api/v2/auth/identity", url)
identity_url == Url("/api/v2", None, "/auth/identity")

\* client.request(method, url) with the headers and body the dispatcher adds
HttpRequest(method, url, built) ==
    [method |-> method, url |-> url, headers |-> built.headers, body |-> built.body]

\* the answers the client meets: a failed send, a 200 and a 409
ClientResponses ==
    {r \in ServerResponse :
        /\ r.status \in {200, 409}
        /\ r.text = ""
        /\ r.text_ok
        /\ r.send_ok \/ r.status = 200}

\* the body of the identity answer: it decodes into a UserIdentity or not
UserIdentityBodies == [decodable : BOOLEAN, tenant : Tenants]

resolve_tenant_keeps_wildcard(tenant) == tenant

\* if &user_identity.tenant == "*" { user_identity.tenant = "default_tenant" }
resolve_tenant(tenant) == IF tenant = "*" THEN "default_tenant" ELSE tenant

decode_error == DispatchErr(<<"error decoding response body">>)

decode_json_ignores_failure(result, decodable) == result

\* resp.json().await?
decode_json(result, decodable) ==
    IF result.kind = "Ok" /\ ~decodable THEN decode_error ELSE result

\* APIClientAsync::get_auth(url, auth)
get_auth(auth, resp, body) ==
    LET sent == send_request_no_self(auth, None, resp)
        result == decode_json(sent.result, body.decodable)
    IN  [request |-> HttpRequest("GET", identity_url, sent.request),
         result |-> result,
         tenant |-> IF result.kind = "Ok" THEN Some(resolve_tenant(body.tenant)) ELSE None]

\* APIClientAsync::new: the fields of the client
APIClientAsync(auth, tenant, database) ==
    [auth_method |-> auth, tenant |-> tenant, database |-> database]

\* (0..128).map(|_| Arc::new(Client::new())).collect::<VecDeque<_>>()
new_client_pool == [i \in 1..PoolSize |-> i]

\* a caller that is in no operation
NoHandle == 0
IdleTask ==
    [pc |-> "idle", op |-> "", check |-> "", handle |-> NoHandle,
     sent |-> << >>, result |-> None]

ClientInit ==
    /\ NoQuery
    /\ NoDispatch
    /\ NoRoundTrip
    /\ NoPool
    /\ pc = "unused"
    /\ collection_entries = NoEntries
    /\ embedding_function = None
    /\ validated = NotValidated
    /\ request = None
    /\ returned = "Pending"
    /\ client_options \in ChromaClientOptions
    /\ construction = "start"
    /\ identity_requests = << >>
    /\ identity_answer = None
    /\ api = None
    /\ client_pool = None
    /\ clients_created = 0
    /\ tasks = [t \in Tasks |-> IdleTask]

\* ChromaClient::new(options)
NewClient ==
    /\ construction = "start"
    /\ \E resp \in ClientResponses, body \in UserIdentityBodies :
          LET user_identity == get_auth(client_options.auth, resp, body)
          IN  /\ identity_requests' = Append(identity_requests, user_identity.request)
              /\ identity_answer' = Some([response |-> resp, body |-> body])
              /\ IF user_identity.result.kind = "Ok"
                 THEN /\ construction' = "done"
                      /\ api' = Some(APIClientAsync(client_options.auth,
                                                    unwrap(user_identity.tenant),
                                                    client_options.database))
                      /\ client_pool' = Some(new_client_pool)
                      /\ clients_created' = PoolSize
                 ELSE /\ construction' = "failed"
                      /\ UNCHANGED <<api, client_pool, clients_created>>
    /\ UNCHANGED <<client_options, tasks>>
    /\ UNCHANGED <<handlerVars, dispatchVars, roundTripVars, poolVars>>

pop_front_reuses_newest(pool, created) ==
    IF pool # << >>
    THEN [client |-> Head(pool), pool |-> Tail(pool), created |-> created]
    ELSE [client |-> created, pool |-> << >>, created |-> created]

\* pool.pop_front().unwrap_or_else(|| Arc::new(Client::new()))
pop_front(pool, created) ==
    IF pool # << >>
    THEN [client |-> Head(pool), pool |-> Tail(pool), created |-> created]
    ELSE [client |-> created + 1, pool |-> << >>, created |-> created + 1]

push_front_unless_full(pool, client) ==
    IF Len(pool) >= PoolSize THEN pool ELSE <<client>> \o pool

\* pool.push_front(client)
push_front(pool, client) == <<client>> \o pool

try_ok_ignores_failure(kind) == TRUE

\* the ? after validate(..) and after the source checks of query: the handler
\* goes on only with an Ok
try_ok(kind) == kind = "Ok"

requests_sent_twice(sending) == <<sending, sending>>

\* let res = Self::send_request_no_self(request, ..).await: the requests one
\* call of send_request puts on the wire
requests_sent(sending) == <<sending>>

\* A public operation is called by task t.  Its local checks ended with
\* `kind`; when they passed the operation enters send_request, which takes a
\* handle from the pool and sends the request.
Invoke(t, op, kind, method, url, body) ==
    /\ is_some(api)
    /\ tasks[t].pc \in {"idle", "returned"}
    /\ IF try_ok(kind)
       THEN LET taken == pop_front(unwrap(client_pool), clients_created)
                sending == HttpRequest(method, url,
                                       build_request(unwrap(api).auth_method, body))
            IN  /\ client_pool' = Some(taken.pool)
                /\ clients_created' = taken.created
                /\ tasks' = [tasks EXCEPT ![t] =
                                [pc |-> "in_flight", op |-> op, check |-> kind,
                                 handle |-> taken.client, sent |-> requests_sent(sending),
                                 result |-> None]]
       ELSE /\ tasks' = [tasks EXCEPT ![t] =
                            [pc |-> "returned", op |-> op, check |-> kind,
                             handle |-> NoHandle, sent |-> << >>,
                             result |-> Some(DispatchErr(<<kind>>))]]
            /\ UNCHANGED <<client_pool, clients_created>>
    /\ UNCHANGED <<client_options, construction, identity_requests, identity_answer, api>>
    /\ UNCHANGED <<handlerVars, dispatchVars, roundTripVars, poolVars>>

\* The server's answer to the request of task t arrives (or its send fails):
\* send_request pushes the handle back and returns the result, and the
\* handler decodes the body of a success.
Complete(t) ==
    /\ tasks[t].pc = "in_flight"
    /\ \E resp \in ClientResponses, decodable \in BOOLEAN :
          LET result == decode_json(classify(resp), decodable)
          IN  tasks' = [tasks EXCEPT ![t] =
                           [@ EXCEPT !.pc = "returned",
                                     !.handle = NoHandle,
                                     !.result = Some(result)]]
    /\ client_pool' = Some(push_front(unwrap(client_pool), tasks[t].handle))
    /\ UNCHANGED <<client_options, construction, identity_requests, identity_answer,
                   api, clients_created>>
    /\ UNCHANGED <<handlerVars, dispatchVars, roundTripVars, poolVars>>

\* the arguments the callers pass to add, upsert and update
CallEntries ==
    [ids : {<<"a">>, <<"">>, <<"a", "a">>},
     metadatas : {None},
     documents : {None, Some(<<"d1">>)},
     embeddings : {None, Some(<<"v0">>), Some(<<"v0", "v1">>)}]

\* the providers the callers pass
CallProviders ==
    {None, Some([fails |-> TRUE, out |-> << >>]), Some([fails |-> FALSE, out |-> <<"v0">>])}

\* the arguments the callers pass to query
CallQueries ==
    [query_embeddings : {None, Some(<<"v0">>)}, query_texts : {None, Some(<<"d1">>)}]

\* self.api.post(&path, Some(json_body)) of the collection handlers: a POST to
\* the collection-scoped url, sent through send_request
post(client, path) == database_url(client, path)

\* what validate(require_embeddings_or_documents, ..) returns on these arguments
validate_kinds(require_embeddings_or_documents) ==
    {validate(require_embeddings_or_documents, entries, provider).kind :
        entries \in CallEntries, provider \in CallProviders}

AddChecks == validate_kinds(TRUE)
UpdateChecks == validate_kinds(FALSE)

\* how the source checks of query end on these arguments
QueryChecks ==
    {resolve_query_source(query.query_embeddings, query.query_texts, provider).kind :
        query \in CallQueries, provider \in CallProviders}

\* ChromaCollection::add
CollectionAdd(t) ==
    \E kind \in AddChecks :
        Invoke(t, "add", kind,
               "POST", post(unwrap(api), "/collections/{id}/add"), Some("{}"))

\* ChromaCollection::upsert
CollectionUpsert(t) ==
    \E kind \in AddChecks :
        Invoke(t, "upsert", kind,
               "POST", post(unwrap(api), "/collections/{id}/upsert"), Some("{}"))

\* ChromaCollection::update
CollectionUpdate(t) ==
    \E kind \in UpdateChecks :
        Invoke(t, "update", kind,
               "POST", post(unwrap(api), "/collections/{id}/update"), Some("{}"))

\* ChromaCollection::query
CollectionQuery(t) ==
    \E kind \in QueryChecks :
        Invoke(t, "query", kind,
               "POST", post(unwrap(api), "/collections/{id}/query"), Some("{}"))

\* ChromaClient::create_collection
CreateCollection(t) ==
    Invoke(t, "create_collection", "Ok",
           "POST", database_url(unwrap(api), "/collections"), Some("{}"))

\* ChromaClient::heartbeat
Heartbeat(t) == Invoke(t, "heartbeat", "Ok", "GET", v1_url("/heartbeat"), None)

ClientNext ==
    \/ NewClient
    \/ \E t \in Tasks :
          \/ CollectionAdd(t)
          \/ CollectionUpsert(t)
          \/ CollectionUpdate(t)
          \/ CollectionQuery(t)
          \/ CreateCollection(t)
          \/ Heartbeat(t)
          \/ Complete(t)

ClientSpec == ClientInit /\ [][ClientNext]_vars

\* --- vocabulary of the client claims ---

Range(sequence) == {sequence[i] : i \in DOMAIN sequence}

\* every request the client has put on the wire and the state still records:
\* the identity request and the requests of the callers' current operations
RequestsOnRecord ==
    Range(identity_requests) \cup UNION {Range(tasks[t].sent) : t \in DOMAIN tasks}

ValidatorFailures ==
    {"MissingContent", "MissingEmbeddingProvider", "ConflictingEmbeddingSource",
     "EmbeddingProviderFailed", "EmptyId", "LengthMismatch", "DuplicateId"}

EntryOperations == {"add", "upsert", "update"}

\* task t is called with an entry batch in this step and its validator fails
ValidationFails(t) ==
    /\ tasks[t].pc # "in_flight"
    /\ tasks'[t] # tasks[t]
    /\ tasks'[t].op \in EntryOperations
    /\ tasks'[t].check \in ValidatorFailures

\* the step returns the failure to the caller of t and touches nothing else
NothingDispatched(t) ==
    /\ tasks'[t].pc = "returned"
    /\ tasks'[t].result = Some(DispatchErr(<<tasks'[t].check>>))
    /\ tasks'[t].sent = << >>
    /\ tasks'[t].handle = NoHandle
    /\ client_pool' = client_pool
    /\ clients_created' = clients_created
    /\ api' = api
    /\ \A u \in Tasks \ {t} : tasks'[u] = tasks[u]

\* C12 (add, upsert, update): validation runs to completion before dispatch;
\* when the validator returns one of its failures no HTTP request is sent, no
\* handle is taken from the pool and no state is changed.
C12_ValidationBeforeDispatch ==
    [][\A t \in Tasks : ValidationFails(t) => NothingDispatched(t)]_vars

\* an update has been refused for its duplicate ids, and the pool is whole
C12_Witness ==
    /\ construction = "done"
    /\ \E t \in Tasks :
          /\ tasks[t].pc = "returned"
          /\ tasks[t].op = "update"
          /\ tasks[t].check = "DuplicateId"
    /\ client_pool = Some(new_client_pool)

AuthenticationHeaderNames == {"Authorization", "X-Chroma-Token"}

\* the authentication a request carries: its Authorization and X-Chroma-Token
\* headers, one entry per occurrence
AuthenticationOf(req) ==
    SelectSeq(req.headers, LAMBDA h : h.name \in AuthenticationHeaderNames)

\* the authentication the specification gives each method
ExpectedAuthentication(method) ==
    CASE method.kind = "None" -> << >>
      [] method.kind = "BasicAuth" ->
            << [name |-> "Authorization", scheme |-> "Basic ",
                pieces |-> <<"base64(", method.username, ":", method.password, ")">>] >>
      [] method.kind = "TokenAuth" /\ method.header = "Authorization" ->
            << [name |-> "Authorization", scheme |-> "Bearer ",
                pieces |-> <<method.token>>] >>
      [] method.kind = "TokenAuth" /\ method.header = "XChromaToken" ->
            << [name |-> "X-Chroma-Token", scheme |-> "", pieces |-> <<method.token>>] >>

\* C16 (authentication): every request of a client, the identity request
\* included, carries exactly the authentication of the configured method and
\* no other, the same for every request after any sequence of operations.
C16_ConfiguredAuthentication ==
    \A req \in RequestsOnRecord :
        AuthenticationOf(req) = ExpectedAuthentication(client_options.auth)

\* a client configured with an X-Chroma-Token has sent its identity request
\* and a later request
C16_Witness ==
    /\ client_options.auth.kind = "TokenAuth"
    /\ client_options.auth.header = "XChromaToken"
    /\ Len(identity_requests) = 1
    /\ \E t \in Tasks : tasks[t].op = "create_collection" /\ tasks[t].sent # << >>

IdentityResolved ==
    /\ identity_answer # None
    /\ identity_answer[1].response.send_ok
    /\ identity_answer[1].response.status \in 200..299
    /\ identity_answer[1].body.decodable

AnsweredTenant == identity_answer[1].body.tenant

\* the tenants of the tenant-scoped requests on record
TenantsOnTheWire == {req.url.scope[1].tenant : req \in {r \in RequestsOnRecord : r.url.scope # None}}

\* C19 (tenant resolution): the resolved tenant is the fixed default tenant
\* name when the identity endpoint returns "*", and the returned tenant
\* unchanged otherwise; the wildcard is never the tenant of a later request.
C19_TenantResolution ==
    /\ construction = "done" =>
          /\ IdentityResolved
          /\ unwrap(api).tenant =
                IF AnsweredTenant = "*" THEN "default_tenant" ELSE AnsweredTenant
    /\ "*" \notin TenantsOnTheWire
    /\ api # None => TenantsOnTheWire \subseteq {unwrap(api).tenant}

\* the identity endpoint answered "*" and a tenant-scoped request has been sent
C19_Witness ==
    /\ construction = "done"
    /\ AnsweredTenant = "*"
    /\ TenantsOnTheWire # {}

\* C20 (client construction): construction issues exactly one identity
\* request; if it fails (transport error, non-2xx status or undecodable body)
\* construction fails outright: no client and no pool are created and nothing
\* is retried.
C20_ConstructionFailsOutright ==
    /\ construction = "start" => identity_requests = << >> /\ api = None
    /\ construction # "start" =>
          /\ Len(identity_requests) = 1
          /\ identity_requests[1].url = [api_version |-> "/api/v2", scope |-> None,
                                         path |-> "/auth/identity"]
          /\ construction = "done" <=> IdentityResolved
          /\ construction = "failed" <=> ~IdentityResolved
    /\ construction = "failed" =>
          /\ api = None
          /\ client_pool = None
          /\ clients_created = 0
          /\ \A t \in Tasks : tasks[t] = IdleTask
    /\ construction = "done" => api # None /\ client_pool # None

\* the identity endpoint answered 200 with a body that is no UserIdentity
C20_Witness ==
    /\ construction = "failed"
    /\ identity_answer[1].response.send_ok
    /\ identity_answer[1].response.status = 200
    /\ ~identity_answer[1].body.decodable

\* ---------------------------------------------------------------------------
\* Further claims about the entry handlers, checked under Spec.
\* ---------------------------------------------------------------------------

\* a provider is supplied and documents are not
ProviderWithoutDocuments == Done /\ ProviderSupplied /\ InDocuments = None

\* C21 as stated: add, upsert and update each return an error when an
\* embedding function is provided and documents are not provided.
C21_ProviderWithoutDocumentsFails ==
    ProviderWithoutDocuments => validated.kind # "Ok" /\ returned = validated.kind

\* what the handlers do with a provider and no documents: add and upsert
\* return an error, MissingContent without embeddings and
\* ConflictingEmbeddingSource with them; update returns
\* ConflictingEmbeddingSource when embeddings are given, and without them it
\* does not fail for the provider: it goes on to the checks of the ids and
\* lengths and is accepted when they pass.
ProviderWithoutDocumentsOutcome ==
    ProviderWithoutDocuments =>
        /\ InEmbeddings # None =>
              /\ validated.kind = "ConflictingEmbeddingSource"
              /\ returned = "ConflictingEmbeddingSource"
              /\ request = None
        /\ (InEmbeddings = None /\ RequiresContent) =>
              /\ validated.kind = "MissingContent"
              /\ returned = "MissingContent"
              /\ request = None
        /\ (InEmbeddings = None /\ ~RequiresContent) =>
              /\ validated.kind \in {"EmptyId", "LengthMismatch", "DuplicateId", "Ok"}
              /\ validated.embed_calls = 0
              /\ (~Step5Applies /\ ~Step6Applies /\ ~Step7Applies) => validated.kind = "Ok"

\* an update with a provider, no documents and no embeddings has been accepted
UpdateAcceptedWithIdleProvider ==
    /\ pc = "update"
    /\ ProviderWithoutDocuments
    /\ InEmbeddings = None
    /\ InIds = <<"a">>
    /\ validated.kind = "Ok"
    /\ request # None

\* an update that names neither embeddings nor documents, with ids that are
\* non-empty and distinct and metadatas, if any, of the length of the ids
BareUpdate ==
    /\ pc \in {"update", "updateV1"}
    /\ InEmbeddings = None
    /\ InDocuments = None
    /\ ~Step5Applies
    /\ ~Step7Applies
    /\ ~LengthDiffers(InMetadatas)

MaxCollections == 2

CollectionNames == {"c1", "c2"}

\* Option<Metadata> of a collection
CollectionMetadatas == {None, Some("m1"), Some("m2")}

\* the server knows no collection
NoCollections == [name \in CollectionNames |-> None]

\* the answer of the server and what it keeps afterwards
ServerAnswer(status, body, store, next_id) ==
    [status |-> status, body |-> body, store |-> store, next_id |-> next_id]

\* POST /collections {name, metadata, get_or_create}: the collection of that
\* name if there is one and get_or_create is set, a conflict if it is not
\* set, and a new collection with a new id otherwise
server_create(store, next_id, name, metadata, get_or_create) ==
    IF store[name] # None
    THEN IF get_or_create
         THEN ServerAnswer(200, store[name], store, next_id)
         ELSE ServerAnswer(409, None, store, next_id)
    ELSE LET collection == [id |-> next_id, name |-> name, metadata |-> metadata]
         IN ServerAnswer(200, Some(collection),
                         [store EXCEPT ![name] = Some(collection)], next_id + 1)

\* GET /collections/{name}
server_get(store, next_id, name) ==
    IF store[name] # None
    THEN ServerAnswer(200, store[name], store, next_id)
    ELSE ServerAnswer(404, None, store, next_id)

\* DELETE /collections/{name}
server_delete(store, next_id, name) ==
    IF store[name] # None
    THEN ServerAnswer(200, None, [store EXCEPT ![name] = None], next_id)
    ELSE ServerAnswer(404, None, store, next_id)

\* PUT /collections/{id} {new_name, new_metadata}: the collection of that id
\* gets the new metadata, if any, and moves to the new name, if any and free
server_modify(store, next_id, id, new_name, new_metadata) ==
    LET held == {n \in CollectionNames : store[n] # None /\ store[n][1].id = id}
    IN  IF held = {} THEN ServerAnswer(404, None, store, next_id)
        ELSE LET old_name == CHOOSE n \in held : TRUE
                 name == unwrap_or(new_name, old_name)
                 collection ==
                     [id |-> id, name |-> name,
                      metadata |-> IF is_some(new_metadata) THEN new_metadata
                                   ELSE store[old_name][1].metadata]
             IN  IF name # old_name /\ store[name] # None
                 THEN ServerAnswer(409, None, store, next_id)
                 ELSE ServerAnswer(200, None,
                                   [[store EXCEPT ![old_name] = None]
                                       EXCEPT ![name] = Some(collection)],
                                   next_id)

\* what the network does with a call: it delivers request and response, or
\* loses the request, or loses the response
Deliveries == {"Delivered", "RequestLost", "ResponseLost"}

\* the request reaches the server unless it is lost; the client sees the
\* answer unless the request or the response is lost
exchange(delivery, answer, store, next_id) ==
    [store |-> IF delivery = "RequestLost" THEN store ELSE answer.store,
     next_id |-> IF delivery = "RequestLost" THEN next_id ELSE answer.next_id,
     body |-> answer.body,
     result |-> classify([send_ok |-> delivery = "Delivered", status |-> answer.status,
                          text |-> "", text_ok |-> TRUE])]

\* APIClientAsync::default(), the dispatcher serde leaves in a skipped field
default_api == APIClientAsync([kind |-> "None", username |-> "", password |-> "",
                               token |-> "", header |-> ""], "", "")

\* response.json::<ChromaCollection>(): id, metadata and name are read from
\* the body, api is skipped
deserialize_collection(body) ==
    [api |-> default_api, id |-> body.id, metadata |-> body.metadata, name |-> body.name]

with_api_left_default(collection, client) == collection

\* collection.api = self.api.clone()
with_api(collection, client) == [collection EXCEPT !.api = client]

\* a client that has been constructed, and a server without collections
RoundTripInit ==
    /\ NoQuery
    /\ NoDispatch
    /\ NoPool
    /\ pc = "unused"
    /\ collection_entries = NoEntries
    /\ embedding_function = None
    /\ validated = NotValidated
    /\ request = None
    /\ returned = "Pending"
    /\ client_options = [auth |-> default_api.auth_method, database |-> "default_database"]
    /\ construction = "done"
    /\ identity_requests = << >>
    /\ identity_answer = None
    /\ \E tenant \in Tenants :
          api = Some(APIClientAsync(client_options.auth, resolve_tenant(tenant),
                                    client_options.database))
    /\ client_pool = Some(new_client_pool)
    /\ clients_created = PoolSize
    /\ tasks = << >>
    /\ server_collections = NoCollections
    /\ next_collection_id = 1
    /\ created_collection = None
    /\ fetched_collection = None
    /\ untouched = TRUE

\* send_request takes the front handle and pushes it back to the front: a
\* call that runs alone leaves the pool and the client as they were
RoundTripFrame == UNCHANGED <<handlerVars, dispatchVars, clientVars, poolVars>>

\* ChromaClient::create_collection(name, metadata, get_or_create)
ClientCreateCollection ==
    /\ \E name \in CollectionNames, metadata \in CollectionMetadatas,
          get_or_create \in BOOLEAN, delivery \in Deliveries :
          LET answer == server_create(server_collections, next_collection_id,
                                      name, metadata, get_or_create)
              seen == exchange(delivery, answer, server_collections, next_collection_id)
          IN  /\ seen.next_id =< MaxCollections + 1
              /\ server_collections' = seen.store
              /\ next_collection_id' = seen.next_id
              /\ IF seen.result.kind = "Ok"
                 THEN /\ created_collection' =
                            Some(with_api(deserialize_collection(unwrap(seen.body)),
                                          unwrap(api)))
                      /\ fetched_collection' = None
                      /\ untouched' = TRUE
                 ELSE UNCHANGED <<created_collection, fetched_collection, untouched>>
    /\ RoundTripFrame

\* ChromaClient::get_collection(name)
ClientGetCollection ==
    /\ \E name \in CollectionNames, delivery \in Deliveries :
          LET answer == server_get(server_collections, next_collection_id, name)
              seen == exchange(delivery, answer, server_collections, next_collection_id)
          IN  /\ IF seen.result.kind = "Ok"
                 THEN fetched_collection' =
                          Some([requested |-> name,
                                collection |->
                                    with_api(deserialize_collection(unwrap(seen.body)),
                                             unwrap(api))])
                 ELSE UNCHANGED fetched_collection
    /\ UNCHANGED <<server_collections, next_collection_id, created_collection, untouched>>
    /\ RoundTripFrame

\* ChromaClient::delete_collection(name)
ClientDeleteCollection ==
    /\ \E name \in CollectionNames, delivery \in Deliveries :
          LET answer == server_delete(server_collections, next_collection_id, name)
              seen == exchange(delivery, answer, server_collections, next_collection_id)
          IN  server_collections' = seen.store
    /\ untouched' = FALSE
    /\ UNCHANGED <<next_collection_id, created_collection, fetched_collection>>
    /\ RoundTripFrame

\* ChromaCollection::modify(name, metadata) on the collection that was created
CollectionModify ==
    /\ created_collection # None
    /\ \E new_name \in OptionOf(CollectionNames), new_metadata \in CollectionMetadatas,
          delivery \in Deliveries :
          LET answer == server_modify(server_collections, next_collection_id,
                                      unwrap(created_collection).id, new_name, new_metadata)
              seen == exchange(delivery, answer, server_collections, next_collection_id)
          IN  server_collections' = seen.store
    /\ untouched' = FALSE
    /\ UNCHANGED <<next_collection_id, created_collection, fetched_collection>>
    /\ RoundTripFrame

RoundTripNext ==
    \/ ClientCreateCollection
    \/ ClientGetCollection
    \/ ClientDeleteCollection
    \/ CollectionModify

RoundTripSpec == RoundTripInit /\ [][RoundTripNext]_vars

\* the collection was created, then fetched by its name, with no modify or
\* delete in between
RoundTripDone ==
    /\ created_collection # None
    /\ fetched_collection # None
    /\ untouched
    /\ fetched_collection[1].requested = created_collection[1].name

NumRequests == 2

Requests == 1..NumRequests

\* the mutex of the pool is free
NoHolder == 0

\* a caller that is not in send_request
IdleRequest == [pc |-> "idle", client |-> NoHandle, took |-> << >>, gave |-> << >>,
                res |-> None]

\* a client whose pool has just been built, and callers about to use it
PoolInit ==
    /\ NoQuery
    /\ NoDispatch
    /\ NoRoundTrip
    /\ pc = "unused"
    /\ collection_entries = NoEntries
    /\ embedding_function = None
    /\ validated = NotValidated
    /\ request = None
    /\ returned = "Pending"
    /\ client_options = [auth |-> default_api.auth_method, database |-> "default_database"]
    /\ construction = "done"
    /\ identity_requests = << >>
    /\ identity_answer = None
    /\ api = Some(APIClientAsync(client_options.auth, "default_tenant",
                                 client_options.database))
    /\ client_pool = Some(new_client_pool)
    /\ clients_created = PoolSize
    /\ tasks = << >>
    /\ requests = [r \in Requests |-> IdleRequest]
    /\ pool_lock = NoHolder

PoolFrame ==
    UNCHANGED <<handlerVars, dispatchVars, roundTripVars, client_options, construction,
                identity_requests, identity_answer, api, tasks>>

\* let mut pool = self.client_pool.lock().unwrap(): the caller enters
\* send_request and gets the mutex once it is free
LockToPop(r) ==
    /\ requests[r].pc \in {"idle", "returned"}
    /\ pool_lock = NoHolder
    /\ pool_lock' = r
    /\ requests' = [requests EXCEPT ![r] = [IdleRequest EXCEPT !.pc = "locked_pop"]]
    /\ UNCHANGED <<client_pool, clients_created>>
    /\ PoolFrame

guard_kept_after_pop(r) == r

\* the guard `pool` goes out of scope at the end of the block of the pop
guard_dropped_after_pop(r) == NoHolder

\* pool.pop_front().unwrap_or_else(|| Arc::new(Client::new())), then the block
\* ends, and client.request(method, url) is sent
Pop(r) ==
    /\ requests[r].pc = "locked_pop"
    /\ pool_lock = r
    /\ LET taken == pop_front(unwrap(client_pool), clients_created)
       IN  /\ client_pool' = Some(taken.pool)
           /\ clients_created' = taken.created
           /\ requests' = [requests EXCEPT ![r] =
                              [@ EXCEPT !.pc = "sending",
                                        !.client = taken.client,
                                        !.took = Append(@, taken.client)]]
    /\ pool_lock' = guard_dropped_after_pop(r)
    /\ PoolFrame

\* Self::send_request_no_self(request, ..).await returns: the answer has
\* arrived, or the send has failed
Receive(r) ==
    /\ requests[r].pc = "sending"
    /\ \E resp \in ClientResponses :
          requests' = [requests EXCEPT ![r] =
                          [@ EXCEPT !.pc = "received", !.res = Some(classify(resp))]]
    /\ UNCHANGED <<client_pool, clients_created, pool_lock>>
    /\ PoolFrame

\* let mut pool = self.client_pool.lock().unwrap(), after the send
LockToPush(r) ==
    /\ requests[r].pc = "received"
    /\ pool_lock = NoHolder
    /\ pool_lock' = r
    /\ requests' = [requests EXCEPT ![r] = [@ EXCEPT !.pc = "locked_push"]]
    /\ UNCHANGED <<client_pool, clients_created>>
    /\ PoolFrame

\* pool.push_front(client), then the block ends and res is returned
Push(r) ==
    /\ requests[r].pc = "locked_push"
    /\ pool_lock = r
    /\ client_pool' = Some(push_front(unwrap(client_pool), requests[r].client))
    /\ requests' = [requests EXCEPT ![r] =
                       [@ EXCEPT !.pc = "returned",
                                 !.client = NoHandle,
                                 !.gave = Append(@, requests[r].client)]]
    /\ pool_lock' = NoHolder
    /\ UNCHANGED clients_created
    /\ PoolFrame

PoolNext ==
    \E r \in Requests :
        \/ LockToPop(r)
        \/ Pop(r)
        \/ Receive(r)
        \/ LockToPush(r)
        \/ Push(r)

PoolSpec == PoolInit /\ [][PoolNext]_vars

\* --- vocabulary of the pool claims ---

ThePool == unwrap(client_pool)

\* the calls that hold a handle: between their pop and their push
InFlight == {r \in Requests : requests[r].pc \in {"sending", "received", "locked_push"}}

\* C24 (pool bound): after any interleaving of concurrent requests the number
\* of handles in the pool never exceeds its initial size.
C24_PoolBounded == Len(ThePool) =< PoolSize

\* the handles the calls in flight hold
HeldHandles == {requests[r].client : r \in InFlight}

\* C25 (one handle per request): every request takes exactly one handle,
\* popped from the pool or newly constructed when the pool is empty, without
\* waiting for a handle, and pushes exactly that handle back exactly once when
\* its send has completed, on success and on failure alike; whenever no
\* request is in flight the pool holds at least its initial handles.
C25_OneHandlePerRequest ==
    /\ \A r \in Requests :
          LET call == requests[r]
          IN  /\ call.pc \in {"idle", "locked_pop"} =>
                    call.took = << >> /\ call.gave = << >> /\ call.client = NoHandle
              /\ call.pc = "locked_pop" => ENABLED Pop(r)
              /\ r \in InFlight =>
                    /\ call.client # NoHandle
                    /\ call.took = <<call.client>>
                    /\ call.gave = << >>
              /\ call.pc = "returned" =>
                    /\ call.res # None
                    /\ Len(call.took) = 1
                    /\ call.gave = call.took
                    /\ call.client = NoHandle
                    /\ call.gave[1] \in Range(ThePool) \cup HeldHandles
    /\ InFlight = {} =>
          /\ Len(ThePool) >= PoolSize
          /\ 1..PoolSize \subseteq Range(ThePool)

\* a call whose send failed has given its handle back while another call
\* holds a handle that was constructed for it
C25_Witness ==
    \E r, u \in Requests :
        /\ requests[r].pc = "returned"
        /\ requests[r].res[1].kind = "Err"
        /\ requests[r].gave = requests[r].took
        /\ u \in InFlight
        /\ requests[u].client > PoolSize

\* C26 (lock scope): the pool lock is held only around a single pop or a
\* single push; no request holds it while it waits on the network, and the
\* holder can always finish its pop or push, so a slow request never blocks
\* another request's acquire or release.
C26_LockOnlyAroundPopAndPush ==
    \A r \in Requests :
        /\ pool_lock = r <=> requests[r].pc \in {"locked_pop", "locked_push"}
        /\ requests[r].pc \in {"sending", "received"} => pool_lock # r
        /\ requests[r].pc = "locked_pop" => ENABLED Pop(r)
        /\ requests[r].pc = "locked_push" => ENABLED Push(r)
        /\ (requests[r].pc = "sending" /\ pool_lock = NoHolder) =>
              \A u \in Requests \ {r} :
                  /\ requests[u].pc \in {"idle", "returned"} => ENABLED LockToPop(u)
                  /\ requests[u].pc = "received" => ENABLED LockToPush(u)

\* one call waits on the network while another holds the lock for its pop
C26_Witness ==
    \E r, u \in Requests :
        /\ requests[r].pc = "sending"
        /\ requests[u].pc = "locked_pop"
        /\ pool_lock = u

\* C27 (handles are exclusive): no handle is held by two in-flight requests
\* at once, a handle taken by a request is absent from the pool until the
\* request releases it, and the pool never contains the same handle twice.
C27_HandlesExclusive ==
    /\ \A r, u \in InFlight : r # u => requests[r].client # requests[u].client
    /\ HeldHandles \cap Range(ThePool) = {}
    /\ Cardinality(Range(ThePool)) = Len(ThePool)

\* two calls are in flight, each with its own handle, and the pool is empty
C27_Witness ==
    /\ ThePool = << >>
    /\ Cardinality(InFlight) >= 2
    /\ Cardinality(HeldHandles) = Cardinality(InFlight)

\* ------------------------------------------- provider output and its length
\* the provider was invoked, answered, and its answer has not one vector per
\* id; no id is empty, so the length check is the first check that can object
MisalignedProviderOutput ==
    /\ Done
    /\ ProviderInvokedBySpec
    /\ ~ProviderFails
    /\ ~Step5Applies
    /\ Len(ProviderOutput) # Len(InIds)

\* C28 as stated: when the provider computes the embeddings and returns a
\* number of vectors different from the number of ids, validation fails with
\* LengthMismatch and no batch is dispatched.
C28_ComputedEmbeddingsLengthChecked ==
    MisalignedProviderOutput =>
        /\ validated.kind = "LengthMismatch"
        /\ request = None
        /\ returned = "LengthMismatch"

\* what holds of the revision that keeps the provider's output
MisalignedProviderOutputRejected ==
    (AsyncRevision /\ MisalignedProviderOutput) =>
        /\ validated.kind = "LengthMismatch"
        /\ request = None

\* ------------------------------------------------ what validate hands back
ReturnedEntries == validated.entries
Validated == Done /\ validated.kind = "Ok"
\* the provider's output stands in for the embeddings the caller left out
ProviderOutputSubstituted ==
    /\ ProviderInvokedBySpec
    /\ ~ProviderFails
    /\ ReturnedEntries.embeddings = Some(ProviderOutput)

\* C29: a successful validate returns ids, metadatas, documents and the
\* caller-supplied embeddings as they came in, element for element; an absent
\* embeddings field stays absent or holds the provider's output; and the
\* request body carries the returned fields unchanged.
C29_InputsPreserved ==
    Validated =>
        /\ ReturnedEntries.ids = InIds
        /\ ReturnedEntries.metadatas = InMetadatas
        /\ ReturnedEntries.documents = InDocuments
        /\ InEmbeddings # None => ReturnedEntries.embeddings = InEmbeddings
        /\ InEmbeddings = None =>
               \/ ReturnedEntries.embeddings = None
               \/ ProviderOutputSubstituted
        /\ request # None
        /\ request[1].body.ids = InIds
        /\ request[1].body.metadatas = InMetadatas
        /\ request[1].body.documents = InDocuments
        /\ request[1].body.embeddings = ReturnedEntries.embeddings

\* a two-element batch with documents and metadata whose embeddings the
\* provider computed
C29_Witness ==
    /\ Validated
    /\ AsyncRevision
    /\ Len(InIds) = 2
    /\ InIds[1] # InIds[2]
    /\ InMetadatas # None
    /\ InDocuments # None
    /\ InDocuments[1][1] # InDocuments[1][2]
    /\ ProviderOutputSubstituted
    /\ request # None

\* --------------------------------------------------- unwrap on absent values
\* the entry handlers and query over every combination of present and absent
\* inputs
UnwrapInit == Init \/ QueryInit

UnwrapNext == Next \/ QueryNext

UnwrapSpec == UnwrapInit /\ [][UnwrapNext]_vars

\* C30: for every combination of present and absent inputs, validate and
\* query reach no unwrap() on an absent value: each call ends in a returned
\* success or failure, never in a panic.
C30_NoUnwrapOnNone ==
    /\ validated.kind # "Panic"
    /\ resolved.kind # "Panic"
    /\ returned # "Panic"

\* validate reached the unwraps of the provider and the documents, and both
\* were present
C30_Witness ==
    /\ Done
    /\ pc # "query"
    /\ validated.embed_calls = 1
    /\ ProviderSupplied
    /\ InDocuments # None
    /\ returned # "Panic"

====
